---- MODULE Spec2Model ----
(***************************************************************************)
(* State-machine model of the help-rota server (server.js): four           *)
(* in-memory collections (tasks, visits, helpers, config), their JSON      *)
(* files, the socket.io fan-out, and one action per Express handler.       *)
(* Node runs each synchronous handler to completion, so one action is one  *)
(* whole handler: lookup, mutation, save, broadcast, response.             *)
(***************************************************************************)
EXTENDS Integers, Sequences, FiniteSets, TLC

(***************************************************************************)
(* Bounds of the model.                                                    *)
(***************************************************************************)
MaxIds == 2
MaxClock == 2
MaxNameLen == 2
MaxSockets == 1

(***************************************************************************)
(* JavaScript values.  A string is a sequence of one-character strings;    *)
(* null and undefined are two values that are no string over Chars.  A     *)
(* timestamp (new Date().toISOString()) is the clock reading, NoTime       *)
(* standing for a null timestamp field.                                    *)
(***************************************************************************)
Null == <<"null">>
Undefined == <<"undefined">>
NoTime == 0
NoId == 0

\* JavaScript truthiness of a string-or-null-or-undefined value.
Truthy(v) == v \notin {Null, Undefined, <<>>}

\* `v || d`
OrDefault(v, d) == IF Truthy(v) THEN v ELSE d

\* A field is present when it holds a value other than null / undefined.
Present(v) == v \notin {Null, Undefined}

Chars == {" ", "a"}

RECURSIVE SeqsUpTo(_, _)
SeqsUpTo(S, n) ==
    IF n = 0 THEN {<<>>}
    ELSE LET shorter == SeqsUpTo(S, n - 1)
         IN  shorter \cup {Append(s, c) : s \in {t \in shorter : Len(t) = n - 1}, c \in S}

\* String.prototype.trim: strip leading and trailing white space.
RECURSIVE TrimLeft(_)
TrimLeft(s) == IF s # <<>> /\ Head(s) = " " THEN TrimLeft(Tail(s)) ELSE s

RECURSIVE TrimRight(_)
TrimRight(s) ==
    IF s # <<>> /\ s[Len(s)] = " " THEN TrimRight(SubSeq(s, 1, Len(s) - 1)) ELSE s

Trim(s) == TrimRight(TrimLeft(s))

\* coll.filter(r => r.id !== id)
WithoutId(coll, id) ==
    LET F[i \in 0..Len(coll)] ==
            IF i = 0 THEN <<>>
            ELSE IF coll[i].id # id THEN Append(F[i - 1], coll[i]) ELSE F[i - 1]
    IN  F[Len(coll)]

\* coll.findIndex(r => r.id === id), counted from 1, 0 when there is none;
\* coll.find(r => r.id === id) is the record at that index
IndexOfId(coll, id) ==
    IF \E i \in 1..Len(coll) : coll[i].id = id
    THEN CHOOSE i \in 1..Len(coll) :
            coll[i].id = id /\ \A j \in 1..(i - 1) : coll[j].id # id
    ELSE 0

\* helpers.find(h => h.name === name), as an index, 0 when there is none
IndexOfName(coll, name) ==
    IF \E i \in 1..Len(coll) : coll[i].name = name
    THEN CHOOSE i \in 1..Len(coll) :
            coll[i].name = name /\ \A j \in 1..(i - 1) : coll[j].name # name
    ELSE 0

(***************************************************************************)
(* Inputs of the requests.                                                 *)
(***************************************************************************)
Ids == 1..MaxIds
Sockets == 1..MaxSockets

\* req.body.helperName of claim and book: absent, empty, or a name
HelperNameInputs == {Undefined, <<>>, <<"a">>, <<"b">>}

\* req.body.name of register: absent, or any string up to MaxNameLen
NameInputs == {Undefined, Null} \cup SeqsUpTo(Chars, MaxNameLen)

DefaultPin == <<"0", "0", "0", "0">>
PinInputs == {Undefined, DefaultPin, <<"1", "2", "3", "4">>, <<"9">>}

DefaultCategory == <<"etc">>

\* request bodies of POST /api/tasks, by number
TaskBodies ==
    << [title |-> <<"t">>, description |-> Undefined, category |-> Undefined,
        desiredDate |-> Undefined, desiredTime |-> Undefined, twin |-> Undefined],
       [title |-> Undefined, description |-> <<"d">>, category |-> <<"c">>,
        desiredDate |-> <<"D">>, desiredTime |-> <<"T">>, twin |-> <<"w">>] >>

\* request bodies of POST /api/visits, by number
VisitBodies ==
    << [date |-> <<"D">>, startTime |-> <<"1">>, endTime |-> <<"2">>],
       [date |-> <<"D">>, startTime |-> Undefined, endTime |-> Undefined] >>

VARIABLES
    tasks,      \* let tasks: array of task records, newest first
    visits,     \* let visits: array of visit records
    helpers,    \* let helpers: array of helper records
    config,     \* let config: { pin }
    files,      \* data/*.json: per document, whether it exists and its content
    diskFaulty, \* whether fs.writeFileSync may throw in this run
    connected,  \* the sockets currently connected
    inbox,      \* per socket and channel, the last snapshot received
    now,        \* the clock read by new Date()
    nextId,     \* number of identifiers uuidv4() has handed out
    last,       \* the request handled last and what the server did for it
    inflight,   \* the requests received and not yet given to their handler
    history     \* history variable: the tasks before the request handled last

vars == <<tasks, visits, helpers, config, files, diskFaulty, connected, inbox,
          now, nextId, last, inflight, history>>

\* what the handlers themselves never touch
aux == <<inflight, history>>

Channels == {"tasks:update", "visits:update", "helpers:update"}

(***************************************************************************)
(* The record kept of the last request: the request, the response, the     *)
(* io.emit broadcasts, the socket.emit messages and the saves, in order.   *)
(***************************************************************************)
NoRequest ==
    [op |-> "none", id |-> NoId, helperName |-> Undefined, name |-> Undefined,
     pin |-> Undefined, oldPin |-> Undefined, newPin |-> Undefined,
     body |-> 0, socket |-> 0, status |-> 0, record |-> <<>>, ok |-> FALSE, error |-> "",
     emitted |-> <<>>, sent |-> <<>>, saved |-> <<>>]

Request(op) == [NoRequest EXCEPT !.op = op]

\* res.json(record)
Json(req, rec) == [req EXCEPT !.status = 200, !.record = <<rec>>]

\* res.json({ ok })
JsonOk(req, ok) == [req EXCEPT !.status = 200, !.ok = ok]

\* res.status(code).json({ error })
Fail(req, code, msg) == [req EXCEPT !.status = code, !.error = msg]

\* a throw out of the handler: Express answers 500
Thrown(req) == [req EXCEPT !.status = 500, !.error = "Internal Server Error"]

Message(channel, payload) == [channel |-> channel, payload |-> payload]

(***************************************************************************)
(* Persistence.  saveJSON writes the whole document with JSON.stringify;   *)
(* a property whose value is undefined is left out of the text, and reads  *)
(* as undefined again, so the document keeps Undefined for it.             *)
(***************************************************************************)
NoFile == [exists |-> FALSE, doc |-> <<>>]
NoConfigFile == [exists |-> FALSE, doc |-> [pin |-> Undefined]]

\* loadJSON(file, fallback)
loadJSON(file, fallback) == IF file.exists THEN file.doc ELSE fallback

\* the outcomes of fs.writeFileSync: TRUE written, FALSE thrown
WriteOutcomes == IF diskFaulty THEN {TRUE, FALSE} ELSE {TRUE}

\* saveJSON(file, data), where written is the outcome of the write
saveJSON(name, data, written) ==
    IF written THEN [files EXCEPT ![name] = [exists |-> TRUE, doc |-> data]]
    ELSE files

\* io.emit(channel, payload): every connected socket receives the snapshot
ioEmit(channel, payload) ==
    [s \in Sockets |->
        IF s \in connected THEN [inbox[s] EXCEPT ![channel] = <<payload>>]
        ELSE inbox[s]]

NoInbox == [c \in Channels |-> <<>>]

(***************************************************************************)
(* Initial state: first run, no data files; the collections are the        *)
(* fallbacks of loadJSON.                                                  *)
(***************************************************************************)
InitCommon ==
    /\ files = [tasks |-> NoFile, visits |-> NoFile, helpers |-> NoFile,
                config |-> NoConfigFile]
    /\ tasks = loadJSON(files.tasks, <<>>)
    /\ visits = loadJSON(files.visits, <<>>)
    /\ helpers = loadJSON(files.helpers, <<>>)
    /\ config = loadJSON(files.config, [pin |-> DefaultPin])
    /\ connected = {}
    /\ inbox = [s \in Sockets |-> NoInbox]
    /\ now = 1
    /\ nextId = 0
    /\ last = NoRequest
    /\ inflight = {}
    /\ history = <<>>

Init == InitCommon /\ diskFaulty = FALSE

InitFaulty == InitCommon /\ diskFaulty = TRUE

\* time passes between requests
Tick ==
    /\ now < MaxClock
    /\ now' = now + 1
    /\ UNCHANGED <<tasks, visits, helpers, config, files, diskFaulty, connected,
                   inbox, nextId, last>>

(***************************************************************************)
(* Visits                                                                  *)
(***************************************************************************)
\* VisitsDone that publishes the collection as it was before the mutation
VisitsDoneStale(req, newVisits, written, response) ==
    /\ visits' = newVisits
    /\ files' = saveJSON("visits", newVisits, written)
    /\ IF written
       THEN /\ inbox' = ioEmit("visits:update", visits)
            /\ last' = [response EXCEPT
                          !.saved = <<"visits">>,
                          !.emitted = <<Message("visits:update", visits)>>]
       ELSE /\ inbox' = inbox
            /\ last' = Thrown(req)

\* the common tail of a visit handler after its mutation:
\* saveVisits(); io.emit('visits:update', visits); res.json(...)
VisitsDone(req, newVisits, written, response) ==
    /\ visits' = newVisits
    /\ files' = saveJSON("visits", newVisits, written)
    /\ IF written
       THEN /\ inbox' = ioEmit("visits:update", newVisits)
            /\ last' = [response EXCEPT
                          !.saved = <<"visits">>,
                          !.emitted = <<Message("visits:update", newVisits)>>]
       ELSE /\ inbox' = inbox
            /\ last' = Thrown(req)

\* app.post('/api/visits')
CreateVisit(k, written) ==
    LET req == [Request("createVisit") EXCEPT !.body = k]
        body == VisitBodies[k]
        visit == [id |-> nextId + 1, date |-> body.date,
                  startTime |-> body.startTime, endTime |-> body.endTime,
                  bookedBy |-> Null, bookedAt |-> NoTime, createdAt |-> now]
    IN  /\ nextId < MaxIds
        /\ nextId' = nextId + 1
        /\ VisitsDone(req, Append(visits, visit), written, Json(req, visit))
        /\ UNCHANGED <<tasks, helpers, config, diskFaulty, connected, now>>

\* BookVisit without the check of visit.bookedBy
BookVisitNoConflict(id, helperName, written) ==
    LET req == [Request("book") EXCEPT !.id = id, !.helperName = helperName]
        idx == IndexOfId(visits, id)
    IN  /\ IF idx = 0
           THEN /\ last' = Fail(req, 404, "Not found")
                /\ UNCHANGED <<visits, files, inbox>>
           ELSE LET visit == [visits[idx] EXCEPT !.bookedBy = helperName,
                                                 !.bookedAt = now]
                IN  VisitsDone(req, [visits EXCEPT ![idx] = visit], written,
                               Json(req, visit))
        /\ UNCHANGED <<tasks, helpers, config, diskFaulty, connected, now, nextId>>

\* app.post('/api/visits/:id/book')
BookVisit(id, helperName, written) ==
    LET req == [Request("book") EXCEPT !.id = id, !.helperName = helperName]
        idx == IndexOfId(visits, id)
    IN  /\ IF idx = 0
           THEN /\ last' = Fail(req, 404, "Not found")
                /\ UNCHANGED <<visits, files, inbox>>
           ELSE IF Truthy(visits[idx].bookedBy)
           THEN /\ last' = Fail(req, 409, "Already booked")
                /\ UNCHANGED <<visits, files, inbox>>
           ELSE LET visit == [visits[idx] EXCEPT !.bookedBy = helperName,
                                                 !.bookedAt = now]
                IN  VisitsDone(req, [visits EXCEPT ![idx] = visit], written,
                               Json(req, visit))
        /\ UNCHANGED <<tasks, helpers, config, diskFaulty, connected, now, nextId>>

\* UnbookVisit that answers an unknown id like a delete: saves, publishes, ok
UnbookVisitNoNotFound(id, written) ==
    LET req == [Request("unbook") EXCEPT !.id = id]
        idx == IndexOfId(visits, id)
    IN  /\ IF idx = 0
           THEN VisitsDone(req, visits, written, JsonOk(req, TRUE))
           ELSE LET visit == [visits[idx] EXCEPT !.bookedBy = Null,
                                                 !.bookedAt = NoTime]
                IN  VisitsDone(req, [visits EXCEPT ![idx] = visit], written,
                               Json(req, visit))
        /\ UNCHANGED <<tasks, helpers, config, diskFaulty, connected, now, nextId>>

\* app.post('/api/visits/:id/unbook')
UnbookVisit(id, written) ==
    LET req == [Request("unbook") EXCEPT !.id = id]
        idx == IndexOfId(visits, id)
    IN  /\ IF idx = 0
           THEN /\ last' = Fail(req, 404, "Not found")
                /\ UNCHANGED <<visits, files, inbox>>
           ELSE LET visit == [visits[idx] EXCEPT !.bookedBy = Null,
                                                 !.bookedAt = NoTime]
                IN  VisitsDone(req, [visits EXCEPT ![idx] = visit], written,
                               Json(req, visit))
        /\ UNCHANGED <<tasks, helpers, config, diskFaulty, connected, now, nextId>>

\* app.delete('/api/visits/:id')
DeleteVisit(id, written) ==
    LET req == [Request("deleteVisit") EXCEPT !.id = id]
    IN  /\ VisitsDone(req, WithoutId(visits, id), written,
                      JsonOk(req, TRUE))
        /\ UNCHANGED <<tasks, helpers, config, diskFaulty, connected, now, nextId>>

(***************************************************************************)
(* Tasks                                                                   *)
(***************************************************************************)
\* request bodies of PUT /api/tasks/:id, by number
UpdateBodies ==
    << [title |-> <<"u">>],
       [status |-> "reserved"],
       [id |-> 1, createdAt |-> NoTime] >>

\* Object.assign(target, source) for a source whose keys the target has;
\* also a run of assignments task.f = v
ObjectAssign(target, source) ==
    [f \in DOMAIN target |-> IF f \in DOMAIN source THEN source[f] ELSE target[f]]

\* the tail of a task handler with io.emit moved before saveTasks()
TasksDoneEmitFirst(req, newTasks, written, response) ==
    /\ tasks' = newTasks
    /\ inbox' = ioEmit("tasks:update", newTasks)
    /\ files' = saveJSON("tasks", newTasks, written)
    /\ last' = IF written
               THEN [response EXCEPT
                       !.saved = <<"tasks">>,
                       !.emitted = <<Message("tasks:update", newTasks)>>]
               ELSE [Thrown(req) EXCEPT
                       !.emitted = <<Message("tasks:update", newTasks)>>]

\* the common tail of a task handler after its mutation:
\* saveTasks(); io.emit('tasks:update', tasks); res.json(...)
TasksDone(req, newTasks, written, response) ==
    /\ tasks' = newTasks
    /\ files' = saveJSON("tasks", newTasks, written)
    /\ IF written
       THEN /\ inbox' = ioEmit("tasks:update", newTasks)
            /\ last' = [response EXCEPT
                          !.saved = <<"tasks">>,
                          !.emitted = <<Message("tasks:update", newTasks)>>]
       ELSE /\ inbox' = inbox
            /\ last' = Thrown(req)

\* CreateTask that appends the new task (push instead of unshift)
CreateTaskPush(k, written) ==
    LET req == [Request("createTask") EXCEPT !.body = k]
        body == TaskBodies[k]
        task == [id |-> nextId + 1,
                 title |-> body.title,
                 description |-> OrDefault(body.description, <<>>),
                 category |-> OrDefault(body.category, DefaultCategory),
                 desiredDate |-> OrDefault(body.desiredDate, <<>>),
                 desiredTime |-> OrDefault(body.desiredTime, <<>>),
                 twin |-> OrDefault(body.twin, <<>>),
                 status |-> "waiting",
                 createdAt |-> now,
                 claimedBy |-> Null,
                 claimedAt |-> NoTime,
                 completedAt |-> NoTime]
    IN  /\ nextId < MaxIds
        /\ nextId' = nextId + 1
        /\ TasksDone(req, Append(tasks, task), written, Json(req, task))
        /\ UNCHANGED <<visits, helpers, config, diskFaulty, connected, now>>

\* app.post('/api/tasks')
CreateTask(k, written) ==
    LET req == [Request("createTask") EXCEPT !.body = k]
        body == TaskBodies[k]
        task == [id |-> nextId + 1,
                 title |-> body.title,
                 description |-> OrDefault(body.description, <<>>),
                 category |-> OrDefault(body.category, DefaultCategory),
                 desiredDate |-> OrDefault(body.desiredDate, <<>>),
                 desiredTime |-> OrDefault(body.desiredTime, <<>>),
                 twin |-> OrDefault(body.twin, <<>>),
                 status |-> "waiting",
                 createdAt |-> now,
                 claimedBy |-> Null,
                 claimedAt |-> NoTime,
                 completedAt |-> NoTime]
    IN  /\ nextId < MaxIds
        /\ nextId' = nextId + 1
        /\ TasksDone(req, <<task>> \o tasks, written, Json(req, task))
        /\ UNCHANGED <<visits, helpers, config, diskFaulty, connected, now>>

\* the handlers that look a task up by id, answer 404 when there is none,
\* and otherwise assign the given fields to it
TaskById(req, id, written, fields) ==
    LET idx == IndexOfId(tasks, id)
    IN  /\ IF idx = 0
           THEN /\ last' = Fail(req, 404, "Not found")
                /\ UNCHANGED <<tasks, files, inbox>>
           ELSE LET task == ObjectAssign(tasks[idx], fields)
                IN  TasksDone(req, [tasks EXCEPT ![idx] = task], written,
                              Json(req, task))
        /\ UNCHANGED <<visits, helpers, config, diskFaulty, connected, now, nextId>>

\* app.put('/api/tasks/:id')
UpdateTask(id, k, written) ==
    TaskById([Request("updateTask") EXCEPT !.id = id, !.body = k], id, written,
             UpdateBodies[k])

\* DeleteTask by tasks.splice(tasks.findIndex(...), 1): an index of -1 removes
\* the last task
DeleteTaskSplice(id, written) ==
    LET req == [Request("deleteTask") EXCEPT !.id = id]
        idx == IndexOfId(tasks, id)
        cut == IF idx = 0 THEN Len(tasks) ELSE idx
    IN  /\ TasksDone(req, SubSeq(tasks, 1, cut - 1) \o SubSeq(tasks, cut + 1, Len(tasks)),
                     written, JsonOk(req, TRUE))
        /\ UNCHANGED <<visits, helpers, config, diskFaulty, connected, now, nextId>>

\* app.delete('/api/tasks/:id')
DeleteTask(id, written) ==
    LET req == [Request("deleteTask") EXCEPT !.id = id]
    IN  /\ TasksDone(req, WithoutId(tasks, id), written,
                     JsonOk(req, TRUE))
        /\ UNCHANGED <<visits, helpers, config, diskFaulty, connected, now, nextId>>

\* ClaimTask that also resets completedAt
ClaimTaskClearsCompleted(id, helperName, written) ==
    TaskById([Request("claim") EXCEPT !.id = id, !.helperName = helperName],
             id, written,
             [status |-> "reserved", claimedBy |-> helperName, claimedAt |-> now,
              completedAt |-> NoTime])

\* ClaimTask that refuses a task that is already claimed (first claim wins)
ClaimTaskFirstWins(id, helperName, written) ==
    LET req == [Request("claim") EXCEPT !.id = id, !.helperName = helperName]
        idx == IndexOfId(tasks, id)
    IN  IF idx # 0 /\ Truthy(tasks[idx].claimedBy)
        THEN /\ last' = Fail(req, 409, "Already claimed")
             /\ UNCHANGED <<tasks, files, inbox, visits, helpers, config,
                            diskFaulty, connected, now, nextId>>
        ELSE TaskById(req, id, written,
                      [status |-> "reserved", claimedBy |-> helperName,
                       claimedAt |-> now])

\* app.post('/api/tasks/:id/claim')
ClaimTask(id, helperName, written) ==
    TaskById([Request("claim") EXCEPT !.id = id, !.helperName = helperName],
             id, written,
             [status |-> "reserved", claimedBy |-> helperName, claimedAt |-> now])

\* UnclaimTask that forgets to clear claimedAt
UnclaimTaskKeepsClaimedAt(id, written) ==
    TaskById([Request("unclaim") EXCEPT !.id = id], id, written,
             [status |-> "waiting", claimedBy |-> Null])

\* app.post('/api/tasks/:id/unclaim')
UnclaimTask(id, written) ==
    TaskById([Request("unclaim") EXCEPT !.id = id], id, written,
             [status |-> "waiting", claimedBy |-> Null, claimedAt |-> NoTime])

\* CompleteTask that also releases the claim
CompleteTaskClearsClaim(id, written) ==
    TaskById([Request("complete") EXCEPT !.id = id], id, written,
             [status |-> "done", completedAt |-> now, claimedBy |-> Null,
              claimedAt |-> NoTime])

\* app.post('/api/tasks/:id/complete')
CompleteTask(id, written) ==
    TaskById([Request("complete") EXCEPT !.id = id], id, written,
             [status |-> "done", completedAt |-> now])

(***************************************************************************)
(* Helpers                                                                 *)
(***************************************************************************)
\* the body of the register handler: blank says whether the name is refused,
\* key is the name looked up among the helpers
Register(name, written, blank, key) ==
    LET req == [Request("register") EXCEPT !.name = name]
    IN  /\ IF blank
           THEN /\ last' = Fail(req, 400, "Name required")
                /\ UNCHANGED <<helpers, files, inbox, nextId>>
           ELSE LET idx == IndexOfName(helpers, key)
                IN  IF idx # 0
                    THEN /\ last' = Json(req, helpers[idx])
                         /\ UNCHANGED <<helpers, files, inbox, nextId>>
                    ELSE LET helper == [id |-> nextId + 1, name |-> Trim(name),
                                        joinedAt |-> now]
                             newHelpers == Append(helpers, helper)
                         IN  /\ nextId < MaxIds
                             /\ nextId' = nextId + 1
                             /\ helpers' = newHelpers
                             /\ files' = saveJSON("helpers", newHelpers, written)
                             /\ IF written
                                THEN /\ inbox' = ioEmit("helpers:update", newHelpers)
                                     /\ last' = [Json(req, helper) EXCEPT
                                                   !.saved = <<"helpers">>,
                                                   !.emitted =
                                                      <<Message("helpers:update",
                                                                newHelpers)>>]
                                ELSE /\ inbox' = inbox
                                     /\ last' = Thrown(req)
        /\ UNCHANGED <<tasks, visits, config, diskFaulty, connected, now>>

\* RegisterHelper that looks the untrimmed name up
RegisterHelperUntrimmedLookup(name, written) ==
    Register(name, written, ~Truthy(name) \/ ~Truthy(Trim(name)), name)

\* RegisterHelper that refuses only an absent or empty name, not a blank one
RegisterHelperNoBlankCheck(name, written) ==
    Register(name, written, ~Truthy(name), Trim(name))

\* app.post('/api/helpers')
RegisterHelper(name, written) ==
    Register(name, written, ~Truthy(name) \/ ~Truthy(Trim(name)), Trim(name))

(***************************************************************************)
(* PIN                                                                     *)
(***************************************************************************)
\* app.post('/api/verify-pin')
VerifyPin(pin) ==
    /\ last' = JsonOk([Request("verifyPin") EXCEPT !.pin = pin], pin = config.pin)
    /\ UNCHANGED <<tasks, visits, helpers, config, files, diskFaulty, connected,
                   inbox, now, nextId>>

\* SetPin without the check of oldPin
SetPinNoCheck(oldPin, newPin, written) ==
    LET req == [Request("setPin") EXCEPT !.oldPin = oldPin, !.newPin = newPin]
        newConfig == [config EXCEPT !.pin = newPin]
    IN  /\ config' = newConfig
        /\ files' = saveJSON("config", newConfig, written)
        /\ last' = IF written
                   THEN [JsonOk(req, TRUE) EXCEPT !.saved = <<"config">>]
                   ELSE Thrown(req)
        /\ UNCHANGED <<tasks, visits, helpers, diskFaulty, connected, inbox, now,
                       nextId>>

\* app.post('/api/set-pin')
SetPin(oldPin, newPin, written) ==
    LET req == [Request("setPin") EXCEPT !.oldPin = oldPin, !.newPin = newPin]
    IN  /\ IF oldPin # config.pin
           THEN /\ last' = Fail(req, 403, "Wrong PIN")
                /\ UNCHANGED <<config, files>>
           ELSE LET newConfig == [config EXCEPT !.pin = newPin]
                IN  /\ config' = newConfig
                    /\ files' = saveJSON("config", newConfig, written)
                    /\ last' = IF written
                               THEN [JsonOk(req, TRUE) EXCEPT !.saved = <<"config">>]
                               ELSE Thrown(req)
        /\ UNCHANGED <<tasks, visits, helpers, diskFaulty, connected, inbox, now,
                       nextId>>

(***************************************************************************)
(* Socket.io                                                               *)
(***************************************************************************)
\* Connect that leaves out the helpers snapshot
ConnectNoHelpers(s) ==
    /\ s \notin connected
    /\ connected' = connected \cup {s}
    /\ inbox' = [inbox EXCEPT ![s] =
                    [c \in Channels |->
                        CASE c = "tasks:update" -> <<tasks>>
                          [] c = "visits:update" -> <<visits>>
                          [] c = "helpers:update" -> <<>>]]
    /\ last' = [Request("connect") EXCEPT
                  !.socket = s,
                  !.sent = <<Message("tasks:update", tasks),
                             Message("visits:update", visits)>>]
    /\ UNCHANGED <<tasks, visits, helpers, config, files, diskFaulty, now, nextId>>

\* io.on('connection'): the new socket is sent the three snapshots
Connect(s) ==
    /\ s \notin connected
    /\ connected' = connected \cup {s}
    /\ inbox' = [inbox EXCEPT ![s] =
                    [c \in Channels |->
                        <<CASE c = "tasks:update" -> tasks
                            [] c = "visits:update" -> visits
                            [] c = "helpers:update" -> helpers>>]]
    /\ last' = [Request("connect") EXCEPT
                  !.socket = s,
                  !.sent = <<Message("tasks:update", tasks),
                             Message("visits:update", visits),
                             Message("helpers:update", helpers)>>]
    /\ UNCHANGED <<tasks, visits, helpers, config, files, diskFaulty, now, nextId>>

\* the client goes away; nothing is kept for it
Disconnect(s) ==
    /\ s \in connected
    /\ connected' = connected \ {s}
    /\ inbox' = [inbox EXCEPT ![s] = NoInbox]
    /\ last' = [Request("disconnect") EXCEPT !.socket = s]
    /\ UNCHANGED <<tasks, visits, helpers, config, files, diskFaulty, now, nextId>>

(***************************************************************************)
(* Specifications                                                          *)
(***************************************************************************)
TaskLifecycleNext ==
    \/ (\E k \in 1..Len(TaskBodies), w \in WriteOutcomes : CreateTask(k, w)) /\ UNCHANGED aux
    \/ (\E id \in Ids, w \in WriteOutcomes : DeleteTask(id, w)) /\ UNCHANGED aux
    \/ (\E id \in Ids, h \in HelperNameInputs, w \in WriteOutcomes : ClaimTask(id, h, w)) /\ UNCHANGED aux
    \/ (\E id \in Ids, w \in WriteOutcomes : UnclaimTask(id, w)) /\ UNCHANGED aux
    \/ (\E id \in Ids, w \in WriteOutcomes : CompleteTask(id, w)) /\ UNCHANGED aux

TaskNext ==
    \/ TaskLifecycleNext
    \/ (\E id \in Ids, k \in 1..Len(UpdateBodies), w \in WriteOutcomes :
           UpdateTask(id, k, w)) /\ UNCHANGED aux

VisitNext ==
    \/ (\E k \in 1..Len(VisitBodies), w \in WriteOutcomes : CreateVisit(k, w)) /\ UNCHANGED aux
    \/ (\E id \in Ids, h \in HelperNameInputs, w \in WriteOutcomes : BookVisit(id, h, w)) /\ UNCHANGED aux
    \/ (\E id \in Ids, w \in WriteOutcomes : UnbookVisit(id, w)) /\ UNCHANGED aux
    \/ (\E id \in Ids, w \in WriteOutcomes : DeleteVisit(id, w)) /\ UNCHANGED aux

HelperNext ==
    (\E name \in NameInputs, w \in WriteOutcomes : RegisterHelper(name, w)) /\ UNCHANGED aux

PinNext ==
    \/ (\E pin \in PinInputs : VerifyPin(pin)) /\ UNCHANGED aux
    \/ (\E oldPin \in PinInputs, newPin \in PinInputs, w \in WriteOutcomes :
           SetPin(oldPin, newPin, w)) /\ UNCHANGED aux

SocketNext ==
    \/ (\E s \in Sockets : Connect(s)) /\ UNCHANGED aux
    \/ (\E s \in Sockets : Disconnect(s)) /\ UNCHANGED aux

Next ==
    \/ Tick /\ UNCHANGED aux
    \/ TaskNext
    \/ VisitNext
    \/ HelperNext
    \/ PinNext
    \/ SocketNext

Spec == Init /\ [][Next]_vars

\* one collection at a time
TaskLifecycleSpec == Init /\ [][TaskLifecycleNext]_vars
TaskSpec == Init /\ [][(Tick /\ UNCHANGED aux) \/ TaskNext]_vars
HelperSpec == Init /\ [][(Tick /\ UNCHANGED aux) \/ HelperNext]_vars
PinSpec == Init /\ [][(Tick /\ UNCHANGED aux) \/ PinNext]_vars

\* the visits with the clock, every visit created with the first body
VisitSpecNext ==
    \/ Tick /\ UNCHANGED aux
    \/ (\E w \in WriteOutcomes : CreateVisit(1, w)) /\ UNCHANGED aux
    \/ (\E id \in Ids, h \in HelperNameInputs, w \in WriteOutcomes : BookVisit(id, h, w)) /\ UNCHANGED aux
    \/ (\E id \in Ids, w \in WriteOutcomes : UnbookVisit(id, w)) /\ UNCHANGED aux
    \/ (\E id \in Ids, w \in WriteOutcomes : DeleteVisit(id, w)) /\ UNCHANGED aux

VisitSpec == Init /\ [][VisitSpecNext]_vars

\* every handler together, each request with one well-formed body and the
\* clock standing still
ServerNext ==
    \/ (\E w \in WriteOutcomes : CreateTask(1, w)) /\ UNCHANGED aux
    \/ (\E id \in Ids, w \in WriteOutcomes : UpdateTask(id, 1, w)) /\ UNCHANGED aux
    \/ (\E id \in Ids, w \in WriteOutcomes : DeleteTask(id, w)) /\ UNCHANGED aux
    \/ (\E id \in Ids, w \in WriteOutcomes : ClaimTask(id, <<"a">>, w)) /\ UNCHANGED aux
    \/ (\E id \in Ids, w \in WriteOutcomes : UnclaimTask(id, w)) /\ UNCHANGED aux
    \/ (\E id \in Ids, w \in WriteOutcomes : CompleteTask(id, w)) /\ UNCHANGED aux
    \/ (\E w \in WriteOutcomes : CreateVisit(1, w)) /\ UNCHANGED aux
    \/ (\E id \in Ids, w \in WriteOutcomes : BookVisit(id, <<"a">>, w)) /\ UNCHANGED aux
    \/ (\E id \in Ids, w \in WriteOutcomes : UnbookVisit(id, w)) /\ UNCHANGED aux
    \/ (\E id \in Ids, w \in WriteOutcomes : DeleteVisit(id, w)) /\ UNCHANGED aux
    \/ (\E name \in {Undefined, <<"a">>, <<" ", "a">>}, w \in WriteOutcomes :
           RegisterHelper(name, w)) /\ UNCHANGED aux
    \/ (\E pin \in {DefaultPin, <<"9">>} : VerifyPin(pin)) /\ UNCHANGED aux
    \/ (\E oldPin \in {DefaultPin, <<"9">>}, w \in WriteOutcomes :
           SetPin(oldPin, <<"9">>, w)) /\ UNCHANGED aux

ServerSpec == Init /\ [][ServerNext]_vars

\* the sockets, with requests that change each of the three collections
SocketSpecNext ==
    \/ (\E w \in WriteOutcomes : CreateTask(1, w)) /\ UNCHANGED aux
    \/ (\E id \in Ids, w \in WriteOutcomes : ClaimTask(id, <<"a">>, w)) /\ UNCHANGED aux
    \/ (\E id \in Ids, w \in WriteOutcomes : DeleteTask(id, w)) /\ UNCHANGED aux
    \/ (\E w \in WriteOutcomes : CreateVisit(1, w)) /\ UNCHANGED aux
    \/ (\E id \in Ids, w \in WriteOutcomes : BookVisit(id, <<"a">>, w)) /\ UNCHANGED aux
    \/ (\E w \in WriteOutcomes : RegisterHelper(<<"a">>, w)) /\ UNCHANGED aux
    \/ SocketNext

SocketSpec == Init /\ [][SocketSpecNext]_vars

\* the handlers that change a collection, with PUT bodies that leave the id
\* alone and two helper names
OrderNext ==
    \/ (\E w \in WriteOutcomes : CreateTask(1, w)) /\ UNCHANGED aux
    \/ (\E id \in Ids, k \in {1, 2}, w \in WriteOutcomes : UpdateTask(id, k, w)) /\ UNCHANGED aux
    \/ (\E id \in Ids, w \in WriteOutcomes : DeleteTask(id, w)) /\ UNCHANGED aux
    \/ (\E id \in Ids, w \in WriteOutcomes : ClaimTask(id, <<"a">>, w)) /\ UNCHANGED aux
    \/ (\E id \in Ids, w \in WriteOutcomes : UnclaimTask(id, w)) /\ UNCHANGED aux
    \/ (\E id \in Ids, w \in WriteOutcomes : CompleteTask(id, w)) /\ UNCHANGED aux
    \/ (\E w \in WriteOutcomes : CreateVisit(1, w)) /\ UNCHANGED aux
    \/ (\E id \in Ids, w \in WriteOutcomes : BookVisit(id, <<"a">>, w)) /\ UNCHANGED aux
    \/ (\E id \in Ids, w \in WriteOutcomes : UnbookVisit(id, w)) /\ UNCHANGED aux
    \/ (\E id \in Ids, w \in WriteOutcomes : DeleteVisit(id, w)) /\ UNCHANGED aux
    \/ (\E name \in {<<"a">>, <<"b">>}, w \in WriteOutcomes : RegisterHelper(name, w)) /\ UNCHANGED aux

OrderSpec == Init /\ [][OrderNext]_vars

\* the task handlers with every PUT body, among them the one that carries an
\* id and a createdAt, as time passes
UpdateNext ==
    \/ (\E w \in WriteOutcomes : CreateTask(1, w)) /\ UNCHANGED aux
    \/ (\E id \in Ids, k \in 1..Len(UpdateBodies), w \in WriteOutcomes :
           UpdateTask(id, k, w)) /\ UNCHANGED aux
    \/ (\E id \in Ids, w \in WriteOutcomes : DeleteTask(id, w)) /\ UNCHANGED aux
    \/ (\E id \in Ids, w \in WriteOutcomes : ClaimTask(id, <<"a">>, w)) /\ UNCHANGED aux
    \/ (\E id \in Ids, w \in WriteOutcomes : UnclaimTask(id, w)) /\ UNCHANGED aux
    \/ (\E id \in Ids, w \in WriteOutcomes : CompleteTask(id, w)) /\ UNCHANGED aux
    \/ Tick /\ UNCHANGED aux

UpdateSpec == Init /\ [][UpdateNext]_vars

\* a disk whose writes can fail: requests that change each of the four
\* documents, and the sockets
FaultyNext ==
    \/ (\E w \in WriteOutcomes : CreateTask(1, w)) /\ UNCHANGED aux
    \/ (\E id \in Ids, w \in WriteOutcomes : ClaimTask(id, <<"a">>, w)) /\ UNCHANGED aux
    \/ (\E w \in WriteOutcomes : CreateVisit(1, w)) /\ UNCHANGED aux
    \/ (\E w \in WriteOutcomes : RegisterHelper(<<"a">>, w)) /\ UNCHANGED aux
    \/ (\E w \in WriteOutcomes : SetPin(DefaultPin, <<"9">>, w)) /\ UNCHANGED aux
    \/ SocketNext

FaultySpec == InitFaulty /\ [][FaultyNext]_vars

\* a claim request arrives and waits for the event loop to run its handler;
\* at most two wait at a time
Arrive(id, helperName) ==
    /\ [id |-> id, helperName |-> helperName] \notin inflight
    /\ Cardinality(inflight) < 2
    /\ inflight' = inflight \cup {[id |-> id, helperName |-> helperName]}
    /\ UNCHANGED <<tasks, visits, helpers, config, files, diskFaulty, connected,
                   inbox, now, nextId, last, history>>

\* the event loop runs the claim handler for one of the waiting requests, in
\* any order, from its first statement to its last (the handler has no await
\* and no callback); history keeps the last two requests handled, each with
\* the requests for the same task that were waiting meanwhile and the status
\* it was answered
HandleClaim(r, written) ==
    /\ r \in inflight
    /\ ClaimTask(r.id, r.helperName, written)
    /\ inflight' = inflight \ {r}
    /\ LET entry == [handled |-> r,
                     pending |-> {q \in inflight \ {r} : q.id = r.id},
                     status |-> last'.status]
       IN  history' = IF history = <<>> THEN <<entry>>
                      ELSE <<history[Len(history)], entry>>

\* claims by two helpers waiting together, on tasks created meanwhile
ConcurrentNext ==
    \/ \E id \in Ids, h \in {<<"a">>, <<"b">>} : Arrive(id, h)
    \/ \E r \in inflight, w \in WriteOutcomes : HandleClaim(r, w)
    \/ (\E w \in WriteOutcomes : CreateTask(1, w)) /\ UNCHANGED aux
    \/ Tick /\ UNCHANGED aux

ConcurrentSpec == Init /\ [][ConcurrentNext]_vars

\* the task handlers without PUT, every task created with the first body;
\* a claim leaves in history the tasks as it found them, the unclaim of the
\* same task right after it keeps the history, any other request clears it
RoundTripNext ==
    \/ /\ \E id \in Ids, h \in HelperNameInputs, w \in WriteOutcomes : ClaimTask(id, h, w)
       /\ history' = tasks
       /\ UNCHANGED inflight
    \/ /\ \E id \in Ids, w \in WriteOutcomes :
             /\ UnclaimTask(id, w)
             /\ history' = IF last.op = "claim" /\ last.id = id THEN history ELSE <<>>
       /\ UNCHANGED inflight
    \/ /\ \/ \E w \in WriteOutcomes : CreateTask(1, w)
          \/ \E id \in Ids, w \in WriteOutcomes : DeleteTask(id, w)
          \/ \E id \in Ids, w \in WriteOutcomes : CompleteTask(id, w)
       /\ history' = <<>>
       /\ UNCHANGED inflight

RoundTripSpec == Init /\ [][RoundTripNext]_vars

(***************************************************************************)
(* Properties                                                              *)
(***************************************************************************)
\* a step in which the server handled a request of kind op (last describes it)
Handled(op) == last' # last /\ last'.op = op

\* the records of a collection with identifier id
WithId(coll, id) == {i \in 1..Len(coll) : coll[i].id = id}

C2_BookedByIffBookedAt ==
    \A i \in 1..Len(visits) :
        Present(visits[i].bookedBy) <=> visits[i].bookedAt # NoTime

C4_ClaimFieldsCoPresent ==
    \A i \in 1..Len(tasks) :
        ~Present(tasks[i].claimedBy) <=> tasks[i].claimedAt = NoTime

TaskOps == {"createTask", "updateTask", "deleteTask", "claim", "unclaim", "complete"}
VisitOps == {"createVisit", "book", "unbook", "deleteVisit"}

\* the helpers named Trim(name)
Named(coll, name) == {i \in 1..Len(coll) : coll[i].name = Trim(name)}

\* C5: a successful task, visit or first-registration request publishes exactly
\* one message, on its collection's channel, carrying the collection as it is
\* after the request; a failed request, a re-registration, verify-pin and
\* set-pin publish nothing.
C5_OneBroadcastPerMutation ==
    [][ last' # last =>
        LET r == last'
            reRegistration == r.op = "register" /\ r.status = 200
                              /\ Named(helpers, r.name) # {}
        IN  /\ (r.op \in TaskOps /\ r.status = 200)
               => r.emitted = <<Message("tasks:update", tasks')>>
            /\ (r.op \in VisitOps /\ r.status = 200)
               => r.emitted = <<Message("visits:update", visits')>>
            /\ (r.op = "register" /\ r.status = 200 /\ ~reRegistration)
               => r.emitted = <<Message("helpers:update", helpers')>>
            /\ (r.status # 200 \/ r.op \in {"verifyPin", "setPin"} \/ reRegistration)
               => r.emitted = <<>> ]_vars

\* C5 witness: a booking was published with both visits in the payload
C5_Witness ==
    /\ last.op = "book"
    /\ last.status = 200
    /\ Len(visits) = 2
    /\ last.emitted = <<Message("visits:update", visits)>>

\* the collection published on a channel
SnapshotOf(c) ==
    CASE c = "tasks:update" -> tasks
      [] c = "visits:update" -> visits
      [] c = "helpers:update" -> helpers

\* C6: a connecting socket is sent exactly one message on each of the three
\* channels, carrying the collection as it is at that moment, and holds these
\* snapshots without having made any request.
C6_ConnectSnapshots ==
    [][ Handled("connect") =>
        LET r == last'
        IN  /\ r.socket \in connected' \ connected
            /\ UNCHANGED <<tasks, visits, helpers>>
            /\ r.emitted = <<>>
            /\ Len(r.sent) = 3
            /\ \A c \in Channels :
                  /\ Cardinality({i \in 1..Len(r.sent) : r.sent[i].channel = c}) = 1
                  /\ \A i \in 1..Len(r.sent) :
                        r.sent[i].channel = c => r.sent[i].payload = SnapshotOf(c)
                  /\ inbox'[r.socket][c] = <<SnapshotOf(c)>> ]_vars

\* C6 witness: a socket connected while a claimed task and a helper existed
C6_Witness ==
    /\ last.op = "connect"
    /\ helpers # <<>>
    /\ \E i \in 1..Len(tasks) : tasks[i].status = "reserved"
    /\ inbox[last.socket]["tasks:update"] = <<tasks>>

\* C7: registering a name whose trimmed form is already a helper's name returns
\* that helper's record and changes neither the helpers, nor the helpers file,
\* and publishes nothing; a successful registration returns the one record of
\* that trimmed name, and no step changes or removes a helper record: so two
\* registrations of names equal after trimming return the same identifier.
C7_RegisterIdempotent ==
    [][ /\ \A i \in 1..Len(helpers) :
              (Handled("register") /\ Truthy(last'.name)
               /\ helpers[i].name = Trim(last'.name))
              => /\ last'.status = 200
                 /\ last'.record = <<helpers[i]>>
                 /\ helpers' = helpers
                 /\ files' = files
                 /\ inbox' = inbox
                 /\ last'.emitted = <<>>
        /\ (Handled("register") /\ last'.status = 200)
              => /\ Cardinality(Named(helpers', last'.name)) = 1
                 /\ \A i \in Named(helpers', last'.name) : last'.record = <<helpers'[i]>>
        /\ Len(helpers') >= Len(helpers)
        /\ \A i \in 1..Len(helpers) : helpers'[i] = helpers[i] ]_vars

\* C7 witness: a name with surrounding blanks was registered again and got the
\* record of the first registration
C7_Witness ==
    /\ last.op = "register"
    /\ last.status = 200
    /\ last.name # Trim(last.name)
    /\ last.emitted = <<>>
    /\ Len(helpers) = 2
    /\ last.record[1].joinedAt < now

\* every helper name is a non-blank string, trimmed, and no two are equal
C8_NamesWellFormed ==
    /\ \A i \in 1..Len(helpers) :
          /\ Truthy(helpers[i].name)
          /\ Trim(helpers[i].name) = helpers[i].name
    /\ \A i, j \in 1..Len(helpers) : helpers[i].name = helpers[j].name => i = j

\* register of an absent or blank name answers 400 and leaves the helpers as
\* they were
C8_BlankRejected ==
    (Handled("register") /\ (~Present(last'.name) \/ Trim(last'.name) = <<>>))
    => /\ last'.status = 400
       /\ helpers' = helpers
       /\ files' = files
       /\ last'.emitted = <<>>

\* C8: in every state reached by register requests all helper names are
\* non-blank, trimmed and pairwise distinct, and a register with an absent or
\* blank name answers 400 and changes nothing.
C8_HelperNames == []C8_NamesWellFormed /\ [][C8_BlankRejected]_vars

\* C8 witness: a name of blanks was refused while two helpers were registered
C8_Witness ==
    /\ last.op = "register"
    /\ last.status = 400
    /\ last.name = <<" ", " ">>
    /\ Len(helpers) = 2

\* C9: delete-task and delete-visit of an id that is not in the collection
\* answer {ok: true} and leave the collection as it was; after any delete no
\* record of that id is left (so a second delete of it is such a no-op) and the
\* other records are kept in their order.
C9_DeleteIdempotent ==
    [][ /\ Handled("deleteTask") =>
              /\ last'.status = 200 /\ last'.ok
              /\ WithId(tasks, last'.id) = {} => tasks' = tasks
              /\ WithId(tasks', last'.id) = {}
              /\ Len(tasks') = Len(tasks) - Cardinality(WithId(tasks, last'.id))
              /\ \A i \in 1..Len(tasks) :
                    tasks[i].id # last'.id =>
                       tasks'[i - Cardinality({j \in WithId(tasks, last'.id) : j < i})]
                          = tasks[i]
        /\ Handled("deleteVisit") =>
              /\ last'.status = 200 /\ last'.ok
              /\ WithId(visits, last'.id) = {} => visits' = visits
              /\ WithId(visits', last'.id) = {}
              /\ Len(visits') = Len(visits) - Cardinality(WithId(visits, last'.id))
              /\ \A i \in 1..Len(visits) :
                    visits[i].id # last'.id =>
                       visits'[i - Cardinality({j \in WithId(visits, last'.id) : j < i})]
                          = visits[i] ]_vars

\* C9 witness: a delete of an id the task collection does not hold succeeded
\* with a task in the collection
C9_Witness ==
    /\ last.op = "deleteTask"
    /\ last.status = 200
    /\ tasks # <<>>
    /\ nextId >= last.id
    /\ WithId(tasks, last.id) = {}

\* C10: set-pin with an oldPin other than the stored PIN answers 403 and leaves
\* config and its file as they were; the stored PIN changes only in a set-pin
\* whose oldPin is the stored PIN; verify-pin answers whether its pin is the
\* stored PIN and changes nothing.
C10_PinGuard ==
    [][ /\ (Handled("setPin") /\ last'.oldPin # config.pin)
              => /\ last'.status = 403
                 /\ config' = config
                 /\ files' = files
        /\ config' # config =>
              /\ Handled("setPin")
              /\ last'.oldPin = config.pin
              /\ last'.status = 200
              /\ config'.pin = last'.newPin
        /\ Handled("verifyPin")
              => /\ last'.status = 200
                 /\ last'.ok = (last'.pin = config.pin)
                 /\ UNCHANGED <<tasks, visits, helpers, config, files, inbox>> ]_vars

\* C10 witness: after a change of the PIN, a set-pin with the default PIN as
\* oldPin was refused
C10_Witness ==
    /\ last.op = "setPin"
    /\ last.status = 403
    /\ last.oldPin = DefaultPin
    /\ config.pin # DefaultPin
    /\ files.config.exists

C12_CompleteFrame ==
    [][ \A i \in 1..Len(tasks) :
           (Handled("complete") /\ last'.id = tasks[i].id)
           => /\ last'.status = 200
              /\ now # NoTime
              /\ Len(tasks') = Len(tasks)
              /\ tasks'[i] = [tasks[i] EXCEPT !.status = "done", !.completedAt = now]
              /\ tasks'[i].claimedBy = tasks[i].claimedBy
              /\ tasks'[i].claimedAt = tasks[i].claimedAt
              /\ last'.record = <<tasks'[i]>>
              /\ \A j \in 1..Len(tasks) : j # i => tasks'[j] = tasks[j] ]_vars

\* C12 witness: create, claim by helper a, complete: the task is done and
\* still claimed by a, next to a second task
C12_Witness ==
    /\ last.op = "complete"
    /\ last.status = 200
    /\ Len(tasks) = 2
    /\ \E i \in WithId(tasks, last.id) :
          /\ tasks[i].status = "done"
          /\ tasks[i].claimedBy = <<"a">>
          /\ tasks[i].claimedAt # NoTime
          /\ tasks[i].completedAt # NoTime

\* C13: update, claim, unclaim and complete on an id that no task has, and
\* book and unbook on an id that no visit has, answer 404, publish nothing and
\* leave the four collections, the files and what the subscribers hold as
\* they were.
C13_NotFound ==
    [][ /\ \A op \in {"updateTask", "claim", "unclaim", "complete"} :
              (Handled(op) /\ WithId(tasks, last'.id) = {})
              => /\ last'.status = 404
                 /\ last'.emitted = <<>>
                 /\ last'.saved = <<>>
                 /\ UNCHANGED <<tasks, visits, helpers, config, files, inbox>>
        /\ \A op \in {"book", "unbook"} :
              (Handled(op) /\ WithId(visits, last'.id) = {})
              => /\ last'.status = 404
                 /\ last'.emitted = <<>>
                 /\ last'.saved = <<>>
                 /\ UNCHANGED <<tasks, visits, helpers, config, files, inbox>> ]_vars

\* C13 witness: unbook of an id that none of the visits has was refused, with
\* a task and a visit in memory and on disk
C13_Witness ==
    /\ last.op = "unbook"
    /\ last.status = 404
    /\ WithId(visits, last.id) = {}
    /\ visits # <<>>
    /\ tasks # <<>>
    /\ files.visits.exists
    /\ files.tasks.exists

\* identifiers are issued in the order of creation, so among records that
\* keep their id the one with the larger id was created later
C14_Ordered ==
    /\ \A i, j \in 1..Len(tasks) : i < j => tasks[i].id > tasks[j].id
    /\ \A i, j \in 1..Len(visits) : i < j => visits[i].id < visits[j].id
    /\ \A i, j \in 1..Len(helpers) : i < j => helpers[i].id < helpers[j].id

\* what each request does to the positions of the records
C14_OrderKept ==
    /\ \A op \in {"updateTask", "claim", "unclaim", "complete"} :
          Handled(op) => /\ Len(tasks') = Len(tasks)
                         /\ \A i \in 1..Len(tasks) : tasks'[i].id = tasks[i].id
    /\ \A op \in {"book", "unbook"} :
          Handled(op) => /\ Len(visits') = Len(visits)
                         /\ \A i \in 1..Len(visits) : visits'[i].id = visits[i].id
    /\ Handled("deleteTask") => tasks' = WithoutId(tasks, last'.id)
    /\ Handled("deleteVisit") => visits' = WithoutId(visits, last'.id)
    /\ Handled("createTask") => /\ Len(tasks') = Len(tasks) + 1
                                /\ Tail(tasks') = tasks
                                /\ Head(tasks').id = nextId'
    /\ Handled("createVisit") => /\ Len(visits') = Len(visits) + 1
                                 /\ SubSeq(visits', 1, Len(visits)) = visits
                                 /\ visits'[Len(visits')].id = nextId'
    /\ (Handled("register") /\ helpers' # helpers)
          => /\ Len(helpers') = Len(helpers) + 1
             /\ SubSeq(helpers', 1, Len(helpers)) = helpers
             /\ helpers'[Len(helpers')].id = nextId'
    /\ \A op \in TaskOps : Handled(op) => UNCHANGED <<visits, helpers>>
    /\ \A op \in VisitOps : Handled(op) => UNCHANGED <<tasks, helpers>>
    /\ Handled("register") => UNCHANGED <<tasks, visits>>

C15_ClaimHandled ==
    \A i \in 1..Len(tasks) :
       (Handled("claim") /\ last'.id = tasks[i].id)
       => /\ last'.status = 200
          /\ tasks' = [tasks EXCEPT ![i] = [tasks[i] EXCEPT
                                               !.status = "reserved",
                                               !.claimedBy = last'.helperName,
                                               !.claimedAt = now]]
          /\ last'.record = <<tasks'[i]>>
          /\ last'.emitted = <<Message("tasks:update", tasks')>>

\* once two claims of one task that waited together have both been handled,
\* both were answered 200 if the task was there for the first, and the task
\* is claimed by the helper of the one handled last
C15_LastWins ==
    (/\ last.op = "claim"
     /\ Len(history) = 2
     /\ history[2].handled \in history[1].pending
     /\ history[2].handled.id = history[1].handled.id
     /\ history[1].status # 404)
    => /\ history[1].status = 200
       /\ history[2].status = 200
       /\ \A i \in WithId(tasks, last.id) :
             /\ tasks[i].status = "reserved"
             /\ tasks[i].claimedBy = history[2].handled.helperName

\* C15: each claim handler runs as one step; claims of one existing task by
\* two helpers that wait together are both answered 200, the task ends up
\* reserved for the helper handled last, and every response and broadcast
\* carries the claimedBy and the claimedAt of one and the same request.
C15_LastWriteWins == []C15_LastWins /\ [][C15_ClaimHandled]_vars

\* C15 witness: the claims of task 1 by a and by b waited together, a's was
\* handled first and b's later, and the task is b's since the later time
C15_Witness ==
    /\ last.op = "claim"
    /\ last.status = 200
    /\ Len(history) = 2
    /\ history[1].handled = [id |-> 1, helperName |-> <<"a">>]
    /\ [id |-> 1, helperName |-> <<"b">>] \in history[1].pending
    /\ history[1].status = 200
    /\ history[2].handled = [id |-> 1, helperName |-> <<"b">>]
    /\ \E i \in WithId(tasks, 1) :
          /\ tasks[i].claimedBy = <<"b">>
          /\ tasks[i].claimedAt = 2

\* the file a channel's collection is saved to
FileOf(c) ==
    CASE c = "tasks:update" -> "tasks"
      [] c = "visits:update" -> "visits"
      [] c = "helpers:update" -> "helpers"

\* C16: with writes that can fail, a request that publishes a snapshot has
\* saved it first, so the file holds the published payload at that moment and
\* the response is the success response; a request whose save throws is
\* answered 500 with no record and no ok, publishes nothing, reaches no
\* subscriber and leaves the files as they were (its mutation of the memory
\* came before the save); and a success response to a request that changed a
\* collection finds that collection saved.
C16_SaveBeforePublish ==
    [][ /\ (last' # last /\ last'.emitted # <<>>)
           => /\ Len(last'.emitted) = 1
              /\ last'.status = 200
              /\ last'.saved = <<FileOf(last'.emitted[1].channel)>>
              /\ files'[FileOf(last'.emitted[1].channel)] =
                    [exists |-> TRUE, doc |-> last'.emitted[1].payload]
        /\ (last' # last /\ last'.status = 500)
           => /\ last'.emitted = <<>>
              /\ last'.saved = <<>>
              /\ last'.record = <<>>
              /\ ~last'.ok
              /\ inbox' = inbox
              /\ files' = files
        /\ (last' # last /\ last'.status = 200)
           => /\ tasks' # tasks => files'.tasks = [exists |-> TRUE, doc |-> tasks']
              /\ visits' # visits => files'.visits = [exists |-> TRUE, doc |-> visits']
              /\ helpers' # helpers => files'.helpers = [exists |-> TRUE, doc |-> helpers']
              /\ config' # config => files'.config = [exists |-> TRUE, doc |-> config'] ]_vars

\* C16 witness: the save of a claim threw after an earlier request had been
\* saved and published: the subscriber still holds the earlier snapshot, the
\* file too, and the task in memory is reserved
C16_Witness ==
    /\ last.op = "claim"
    /\ last.status = 500
    /\ last.emitted = <<>>
    /\ files.tasks.exists
    /\ \E s \in connected :
          /\ inbox[s]["tasks:update"] = <<files.tasks.doc>>
          /\ files.tasks.doc # <<>>
          /\ files.tasks.doc # tasks
    /\ \E i \in WithId(tasks, last.id) : tasks[i].status = "reserved"

\* C17: a create-task request whose title is absent or empty is refused
\* (not answered 200) and adds no task.
C17_TitleRequired ==
    [][ (Handled("createTask") /\ ~Truthy(TaskBodies[last'.body].title))
        => /\ last'.status # 200
           /\ tasks' = tasks ]_vars

\* the ids of the tasks are pairwise distinct
C18_IdsDistinct ==
    \A i, j \in 1..Len(tasks) : i # j => tasks[i].id # tasks[j].id

\* the handlers that change a task in place leave its id and its createdAt
C18_IdKept ==
    \A op \in {"updateTask", "claim", "unclaim", "complete"} :
       Handled(op) => /\ Len(tasks') = Len(tasks)
                      /\ \A i \in 1..Len(tasks) :
                            /\ tasks'[i].id = tasks[i].id
                            /\ tasks'[i].createdAt = tasks[i].createdAt

\* C18: in every state, PUT with any fields included, the ids of the tasks
\* are pairwise distinct, and no request changes the id or the createdAt a
\* task got when it was created.
C18_IdsUniqueAndKept == []C18_IdsDistinct /\ [][C18_IdKept]_vars

\* C19: between requests each document on disk, read as the server reads it
\* at start, equals the collection in memory, also after a request whose
\* save threw.
C19_DiskEqualsMemory ==
    /\ loadJSON(files.tasks, <<>>) = tasks
    /\ loadJSON(files.visits, <<>>) = visits
    /\ loadJSON(files.helpers, <<>>) = helpers
    /\ loadJSON(files.config, [pin |-> DefaultPin]) = config

\* C20: between requests a connected socket, which has received every
\* message since it connected, holds as the last snapshot of each channel
\* the collection as it is in memory.
C20_SubscriberCurrent ==
    \A s \in connected : \A c \in Channels : inbox[s][c] = <<SnapshotOf(c)>>

====
